---------------------------- MODULE Spec2Model ----------------------------
(***************************************************************************)
(* State-machine model of src/components/map/MapView.tsx: the readiness    *)
(* gate (ready / ResizeObserver effect), the pulsing animation loop        *)
(* (requestAnimationFrame effect), the memoised layer composition          *)
(* (useMemo), the pick handlers (onClick / getTooltip) and the viewport    *)
(* forwarding (onViewStateChange / onMove).                                *)
(***************************************************************************)
EXTENDS Integers, Sequences, FiniteSets

(***************************************************************************)
(* Bounds of the model.                                                    *)
(***************************************************************************)
\* container width and height range over 0..MaxDim
MaxDim == 1
\* requestAnimationFrame hands out handles from 1..MaxHandle
MaxHandle == 2
\* the count of applied pulsing updates saturates at MaxTicks
MaxTicks == 12

(***************************************************************************)
(* IEEE-754 binary64 arithmetic on the values the animation uses.          *)
(* A double d with 0.5 <= d < 2 is held exactly as the integer d * 2^58,   *)
(* split in two limbs <<hi, lo>> with d * 2^58 = hi * 2^29 + lo, so that   *)
(* every intermediate stays below 2^31.  Doubles in [0.5, 1) are the       *)
(* multiples of 2^-53 (32 units), doubles in [1, 2) the multiples of       *)
(* 2^-52 (64 units).                                                       *)
(***************************************************************************)
LimbBase == 536870912

\* the literal 1 of useState(1)
ONE == <<536870912, 0>>
\* the literal 0.02: the double nearest to 0.02 is 5764607523034235 * 2^-58
STEP == <<10737418, 128849019>>
\* the literal 1.2: the double nearest to 1.2 is 5404319552844595 * 2^-52
UPPER == <<644245094, 214748352>>
\* the literal 0.8: the double nearest to 0.8 is 7205759403792794 * 2^-53
LOWER == <<429496729, 322122560>>

\* a > b on doubles
FGreater(a, b) == \/ a[1] > b[1]
                  \/ a[1] = b[1] /\ a[2] > b[2]

FLessEq(a, b) == ~FGreater(a, b)

\* the exact (unrounded) sum, in units of 2^-58
ExactSum(a, b) ==
    LET lo == a[2] + b[2]
    IN  IF lo >= LimbBase THEN <<a[1] + b[1] + 1, lo - LimbBase>>
                          ELSE <<a[1] + b[1], lo>>

\* round an exact value in [0.5, 2) to the nearest double, ties to even
RoundNearestEven(s) ==
    LET q    == IF FGreater(ONE, s) THEN 32 ELSE 64
        r    == s[2] % q
        down == s[2] - r
        up   == IF r * 2 > q THEN TRUE
                ELSE IF r * 2 < q THEN FALSE
                ELSE ((down \div q) % 2) = 1
        lo   == IF up THEN down + q ELSE down
    IN  IF lo >= LimbBase THEN <<s[1] + 1, lo - LimbBase>> ELSE <<s[1], lo>>

\* a + b as the double-precision + of the source computes it
FAdd(a, b) == RoundNearestEven(ExactSum(a, b))


(***************************************************************************)
(* Inputs (props) of the view.                                             *)
(***************************************************************************)
\* LayerToggleState: the closed set of layer kinds, in the order of the
\* conditional pushes of the layers memo
KindOrder == <<"choropleth", "conflict", "foodDesert", "infrastructure",
               "tradeArcs", "displacementArcs", "heatmap">>

Kinds == {KindOrder[i] : i \in 1..Len(KindOrder)}

\* AgentResults: the domains whose output may be present (TRUE) or absent
Domains == {"geopolitics", "economy", "food_supply", "infrastructure",
            "civilian_impact"}

\* region identifiers (ISO_A3) and display names (NAME)
Regions == {"FRA", "USA"}
Names == {"France"}
NoSelection == "null"

\* camera values the owner or the render surface may produce
ViewStates == {"v0", "v1"}

\* the props record: layerToggles, agentResults, countriesGeoJSON,
\* selectedCountry
AllInputs ==
    [layerToggles     : [Kinds -> BOOLEAN],
     agentResults     : [Domains -> BOOLEAN],
     countriesGeoJSON : BOOLEAN,
     selectedCountry  : Regions \cup {NoSelection}]

AllOn == [k \in Kinds |-> TRUE]
AllPresent == [d \in Domains |-> TRUE]
NonePresent == [d \in Domains |-> FALSE]

\* the props of a view constructed before any analysis output or geometry
\* has arrived and before any region is selected, with the toggles t
NothingLoaded(t) ==
    [layerToggles |-> t, agentResults |-> NonePresent,
     countriesGeoJSON |-> FALSE, selectedCountry |-> NoSelection]

\* the inputs that differ from in in exactly one toggle, one domain output,
\* the geometry or the selection
Neighbours(in) ==
    {[in EXCEPT !.layerToggles[k] = ~@] : k \in Kinds}
    \cup {[in EXCEPT !.agentResults[d] = ~@] : d \in Domains}
    \cup {[in EXCEPT !.countriesGeoJSON = ~@]}
    \cup {[in EXCEPT !.selectedCountry = r] :
             r \in (Regions \cup {NoSelection}) \ {in.selectedCountry}}

\* the input cases the lifecycle specification moves between
InputCases ==
    { NothingLoaded(AllOn),
      [layerToggles |-> AllOn, agentResults |-> AllPresent,
       countriesGeoJSON |-> TRUE, selectedCountry |-> "FRA"],
      [layerToggles |-> [AllOn EXCEPT !["heatmap"] = FALSE],
       agentResults |-> [NonePresent EXCEPT !["economy"] = TRUE],
       countriesGeoJSON |-> TRUE, selectedCountry |-> NoSelection] }

(***************************************************************************)
(* State.                                                                  *)
(***************************************************************************)
VARIABLES
    inputs,          \* the props other than viewState
    viewState,       \* the externally owned ViewState prop
    phase,           \* "rendered" (first render done), "mounted", "unmounted"
    ready,           \* useState(false)
    pulsingRadius,   \* useState(1), a double
    effectReady,     \* the value of ready the readiness effect last ran with
    clientWidth,     \* el.clientWidth of the container
    clientHeight,    \* el.clientHeight of the container
    observing,       \* a ResizeObserver created by the effect observes el
    roPending,       \* that observer has a notification to deliver
    animationFrame,  \* the let animationFrame of the pulsing effect (0: unset)
    rafPending,      \* handles of the frame callbacks that are scheduled
    layers,          \* the value of the layers memo of the last render
    built,           \* the kinds whose builder the last step invoked
    picked,          \* the handler the render surface called in the last step,
                     \* and what it passed (a pick or a ViewState)
    emitted,         \* what the last step sent out through a callback prop
    label,           \* what the last step's getTooltip returned
    ticks,           \* how many pulsing updates were applied (saturating)
    sizeSeen         \* some check() ran while width > 0 and height > 0

vars == <<inputs, viewState, phase, ready, pulsingRadius, effectReady,
          clientWidth, clientHeight, observing, roPending, animationFrame,
          rafPending, layers, built, picked, emitted, label, ticks, sizeSeen>>

Dims == 0..MaxDim
Handles == 1..MaxHandle

NoPick == [handler |-> "none"]
NoEvent == [type |-> "none"]
Null == "null"
Undefined == "undefined"


(***************************************************************************)
(* Readiness gate: the dimension check of the readiness effect.            *)
(***************************************************************************)
\* Check accepting a container with one non-zero dimension (|| for &&)
CheckEitherDimension(w, h) == w > 0 \/ h > 0

\* el.clientWidth > 0 && el.clientHeight > 0
Check(w, h) == w > 0 /\ h > 0

\* StartsObserver with the fallback observer left out
StartsObserverNever(r) == FALSE

\* StartsObserver without the if (!ready) around the observer
StartsObserverAlways(r) == TRUE

\* if (!ready) { new ResizeObserver(...).observe(el) }: does the effect, run
\* with the value r of ready, start an observer
StartsObserver(r) == ~r

(***************************************************************************)
(* Animation: the updater passed to setPulsingRadius.                      *)
(***************************************************************************)
\* AnimateUpdate clamping at the upper bound instead of wrapping around
AnimateUpdateClamp(prev) ==
    LET next == FAdd(prev, STEP)
    IN  IF FGreater(next, UPPER) THEN UPPER ELSE next

\* AnimateUpdate without the reset
AnimateUpdateNoReset(prev) == FAdd(prev, STEP)

\* const next = prev + 0.02; return next > 1.2 ? 0.8 : next
AnimateUpdate(prev) ==
    LET next == FAdd(prev, STEP)
    IN  IF FGreater(next, UPPER) THEN LOWER ELSE next

\* requestAnimationFrame returns the handle after the last one it returned
\* (handles count up; the model wraps them within 1..MaxHandle)
RequestFrame(last) == (last % MaxHandle) + 1

\* CancelFrame cancelling nothing (the cleanup left out)
CancelFrameNothing(pending, handle) == pending

\* cancelAnimationFrame(handle)
CancelFrame(pending, handle) == pending \ {handle}

(***************************************************************************)
(* Layer composition: the body of the layers memo.                         *)
(***************************************************************************)
\* the per-kind builders: a descriptor is its kind and the arguments the
\* builder was called with (a payload is TRUE, an absent one FALSE)
CreateChoroplethLayer(geo, results, selected) ==
    [kind |-> "choropleth", args |-> <<geo, results, selected>>]
CreateConflictLayer(geopolitics, pulse) ==
    [kind |-> "conflict", args |-> <<geopolitics, pulse>>]
CreateFoodDesertLayer(geo, food) ==
    [kind |-> "foodDesert", args |-> <<geo, food>>]
CreateInfrastructureLayer(infra) ==
    [kind |-> "infrastructure", args |-> <<infra>>]
CreateTradeArcLayer(economy, food) ==
    [kind |-> "tradeArcs", args |-> <<economy, food>>]
CreateDisplacementArcLayer(civilian) ==
    [kind |-> "displacementArcs", args |-> <<civilian>>]
CreateHeatmapLayer(results) ==
    [kind |-> "heatmap", args |-> <<results>>]

\* ChoroplethGuard that also asks for a selected region
ChoroplethGuardNeedsSelection(in) ==
    /\ in.layerToggles["choropleth"] /\ in.countriesGeoJSON
    /\ in.selectedCountry # NoSelection

\* the guards of the conditional pushes
ChoroplethGuard(in) ==
    in.layerToggles["choropleth"] /\ in.countriesGeoJSON
\* ConflictGuard without the presence test of the geopolitics output
ConflictGuardToggleOnly(in) ==
    in.layerToggles["conflict"]
ConflictGuard(in) ==
    in.layerToggles["conflict"] /\ in.agentResults["geopolitics"]
FoodDesertGuard(in) ==
    /\ in.layerToggles["foodDesert"]
    /\ in.countriesGeoJSON
    /\ in.agentResults["food_supply"]
InfrastructureGuard(in) ==
    in.layerToggles["infrastructure"] /\ in.agentResults["infrastructure"]
\* TradeArcsGuard requiring both outputs (&& for ||)
TradeArcsGuardBoth(in) ==
    /\ in.layerToggles["tradeArcs"]
    /\ (in.agentResults["economy"] /\ in.agentResults["food_supply"])
TradeArcsGuard(in) ==
    /\ in.layerToggles["tradeArcs"]
    /\ (in.agentResults["economy"] \/ in.agentResults["food_supply"])
DisplacementArcsGuard(in) ==
    in.layerToggles["displacementArcs"] /\ in.agentResults["civilian_impact"]
\* layerToggles.heatmap && agentResults: the bundle object is always truthy
HeatmapGuard(in) ==
    in.layerToggles["heatmap"] /\ TRUE

\* deckLayers.push(x) when the guard holds
PushIf(guard, deckLayers, x) ==
    IF guard THEN Append(deckLayers, x) ELSE deckLayers

\* ComposeLayers with the conflict push moved in front of the choropleth push
ComposeLayersConflictFirst(in, pulse) ==
    LET l0 == <<>>
        l1 == PushIf(ConflictGuard(in), l0,
                  CreateConflictLayer(in.agentResults["geopolitics"], pulse))
        l2 == PushIf(ChoroplethGuard(in), l1,
                  CreateChoroplethLayer(in.countriesGeoJSON, in.agentResults,
                                        in.selectedCountry))
        l3 == PushIf(FoodDesertGuard(in), l2,
                  CreateFoodDesertLayer(in.countriesGeoJSON,
                                        in.agentResults["food_supply"]))
        l4 == PushIf(InfrastructureGuard(in), l3,
                  CreateInfrastructureLayer(in.agentResults["infrastructure"]))
        l5 == PushIf(TradeArcsGuard(in), l4,
                  CreateTradeArcLayer(in.agentResults["economy"],
                                      in.agentResults["food_supply"]))
        l6 == PushIf(DisplacementArcsGuard(in), l5,
                  CreateDisplacementArcLayer(in.agentResults["civilian_impact"]))
        l7 == PushIf(HeatmapGuard(in), l6,
                  CreateHeatmapLayer(in.agentResults))
    IN  l7

\* ComposeLayers with the pulsing radius also handed to the infrastructure
\* builder
ComposeLayersPulseEverywhere(in, pulse) ==
    LET l0 == <<>>
        l1 == PushIf(ChoroplethGuard(in), l0,
                  CreateChoroplethLayer(in.countriesGeoJSON, in.agentResults,
                                        in.selectedCountry))
        l2 == PushIf(ConflictGuard(in), l1,
                  CreateConflictLayer(in.agentResults["geopolitics"], pulse))
        l3 == PushIf(FoodDesertGuard(in), l2,
                  CreateFoodDesertLayer(in.countriesGeoJSON,
                                        in.agentResults["food_supply"]))
        l4 == PushIf(InfrastructureGuard(in), l3,
                  [kind |-> "infrastructure",
                   args |-> <<in.agentResults["infrastructure"], pulse>>])
        l5 == PushIf(TradeArcsGuard(in), l4,
                  CreateTradeArcLayer(in.agentResults["economy"],
                                      in.agentResults["food_supply"]))
        l6 == PushIf(DisplacementArcsGuard(in), l5,
                  CreateDisplacementArcLayer(in.agentResults["civilian_impact"]))
        l7 == PushIf(HeatmapGuard(in), l6,
                  CreateHeatmapLayer(in.agentResults))
    IN  l7

\* const deckLayers = []; seven conditional pushes; return deckLayers
ComposeLayers(in, pulse) ==
    LET l0 == <<>>
        l1 == PushIf(ChoroplethGuard(in), l0,
                  CreateChoroplethLayer(in.countriesGeoJSON, in.agentResults,
                                        in.selectedCountry))
        l2 == PushIf(ConflictGuard(in), l1,
                  CreateConflictLayer(in.agentResults["geopolitics"], pulse))
        l3 == PushIf(FoodDesertGuard(in), l2,
                  CreateFoodDesertLayer(in.countriesGeoJSON,
                                        in.agentResults["food_supply"]))
        l4 == PushIf(InfrastructureGuard(in), l3,
                  CreateInfrastructureLayer(in.agentResults["infrastructure"]))
        l5 == PushIf(TradeArcsGuard(in), l4,
                  CreateTradeArcLayer(in.agentResults["economy"],
                                      in.agentResults["food_supply"]))
        l6 == PushIf(DisplacementArcsGuard(in), l5,
                  CreateDisplacementArcLayer(in.agentResults["civilian_impact"]))
        l7 == PushIf(HeatmapGuard(in), l6,
                  CreateHeatmapLayer(in.agentResults))
    IN  l7

KindsOf(ls) == {ls[i].kind : i \in 1..Len(ls)}

\* DepsChanged with layerToggles missing from the dependency list
DepsChangedWithoutToggles(oldIn, oldPulse, newIn, newPulse) ==
    \/ [oldIn EXCEPT !.layerToggles = newIn.layerToggles] # newIn
    \/ oldPulse # newPulse

\* useMemo(..., [layerToggles, agentResults, selectedCountry,
\* countriesGeoJSON, pulsingRadius]): the memo body runs only when a
\* dependency differs from the one of the previous render
DepsChanged(oldIn, oldPulse, newIn, newPulse) ==
    oldIn # newIn \/ oldPulse # newPulse

MemoLayers(oldIn, oldPulse, oldLayers, newIn, newPulse) ==
    IF DepsChanged(oldIn, oldPulse, newIn, newPulse)
    THEN ComposeLayers(newIn, newPulse)
    ELSE oldLayers

MemoBuilt(oldIn, oldPulse, newIn, newPulse) ==
    IF DepsChanged(oldIn, oldPulse, newIn, newPulse)
    THEN KindsOf(ComposeLayers(newIn, newPulse))
    ELSE {}

(***************************************************************************)
(* Picks: what the render surface hands to onClick and getTooltip.         *)
(***************************************************************************)
\* a property is undefined, the empty string or a non-empty string
PropValues(S) == S \cup {Undefined, ""}

Picks ==
    {[object |-> FALSE, properties |-> FALSE,
      NAME |-> Undefined, ISO_A3 |-> Undefined],
     [object |-> TRUE, properties |-> FALSE,
      NAME |-> Undefined, ISO_A3 |-> Undefined]}
    \cup [object : {TRUE}, properties : {TRUE},
          NAME : PropValues(Names), ISO_A3 : PropValues(Regions)]

\* the picks the lifecycle specification draws from: a region with both
\* properties, and a pick of nothing
CorePicks ==
    {[object |-> TRUE, properties |-> TRUE, NAME |-> "France", ISO_A3 |-> "FRA"],
     [object |-> FALSE, properties |-> FALSE,
      NAME |-> Undefined, ISO_A3 |-> Undefined]}

\* JavaScript truthiness of a string-or-undefined value
Truthy(v) == v # Undefined /\ v # ""

\* info.object?.properties?.ISO_A3 and object?.properties?.NAME
PickIso(p) == IF p.object /\ p.properties THEN p.ISO_A3 ELSE Undefined
PickName(p) == IF p.object /\ p.properties THEN p.NAME ELSE Undefined

\* GetTooltip preferring the identifier over the display name
GetTooltipIsoFirst(p) ==
    IF Truthy(PickIso(p)) THEN PickIso(p)
    ELSE IF Truthy(PickName(p)) THEN PickName(p)
    ELSE Null

\* onClick: if (ISO_A3) onCountryClick(ISO_A3)
OnClickEvent(p) ==
    IF Truthy(PickIso(p)) THEN [type |-> "countryClick", iso |-> PickIso(p)]
                          ELSE NoEvent

\* getTooltip: NAME || ISO_A3 || null
GetTooltip(p) ==
    IF Truthy(PickName(p)) THEN PickName(p)
    ELSE IF Truthy(PickIso(p)) THEN PickIso(p)
    ELSE Null


(***************************************************************************)
(* Initial state: the first render has returned and no effect has run.     *)
(***************************************************************************)
InitWith(cases, sizes) ==
    /\ inputs \in cases
    /\ viewState = "v0"
    /\ phase = "rendered"
    /\ ready = FALSE
    /\ pulsingRadius = ONE
    /\ effectReady = FALSE
    /\ clientWidth \in sizes
    /\ clientHeight \in sizes
    /\ observing = FALSE
    /\ roPending = FALSE
    /\ animationFrame = 0
    /\ rafPending = {}
    /\ layers = ComposeLayers(inputs, ONE)
    /\ built = KindsOf(ComposeLayers(inputs, ONE))
    /\ picked = NoPick
    /\ emitted = NoEvent
    /\ label = Null
    /\ ticks = 0
    /\ sizeSeen = FALSE

Init == InitWith({NothingLoaded(AllOn)}, Dims)

(***************************************************************************)
(* Pieces shared by the handlers.                                          *)
(***************************************************************************)
\* a render: the layers memo is re-evaluated against the new dependencies
Render(newIn, newPulse) ==
    /\ layers' = MemoLayers(inputs, pulsingRadius, layers, newIn, newPulse)
    /\ built' = MemoBuilt(inputs, pulsingRadius, newIn, newPulse)

\* the step calls no callback prop and no pick handler
Quiet ==
    /\ picked' = NoPick
    /\ emitted' = NoEvent
    /\ label' = Null

\* RunCheck storing the outcome of the check: setReady(width > 0 && height > 0)
RunCheckAssign ==
    /\ ready' = IF phase # "unmounted" THEN Check(clientWidth, clientHeight)
                ELSE ready
    /\ sizeSeen' = (sizeSeen \/ (clientWidth > 0 /\ clientHeight > 0))

\* check(): setReady(true) when the container has a size; setState on an
\* unmounted view is dropped
RunCheck ==
    /\ ready' = IF phase # "unmounted" /\ Check(clientWidth, clientHeight)
                THEN TRUE ELSE ready
    /\ sizeSeen' = (sizeSeen \/ (clientWidth > 0 /\ clientHeight > 0))

\* AfterDisconnect with the cleanup returning nothing (no ro.disconnect())
AfterDisconnectLeak(obs) == obs

\* ro.disconnect(): is an observer still observing after the cleanup
AfterDisconnect(obs) == FALSE

\* the body of the readiness effect, run with the value r of ready: the
\* immediate check, then an observer if r is false.  A fresh observation
\* reports once when the element's size is not 0 x 0.  (containerRef.current
\* is the outer div, which every render returns, so the early return on a
\* missing element is never taken.)
RunReadinessEffect(r) ==
    /\ RunCheck
    /\ observing' = StartsObserver(r)
    /\ roPending' = (StartsObserver(r) /\ (clientWidth > 0 \/ clientHeight > 0))
    /\ effectReady' = r

\* setPulsingRadius(updater) followed by requestAnimationFrame(animate),
\* with the callbacks in still scheduled
\* RunAnimate without the requestAnimationFrame call that ends animate
RunAnimateNoReschedule(still) ==
    /\ pulsingRadius' = IF phase # "unmounted" THEN AnimateUpdate(pulsingRadius)
                        ELSE pulsingRadius
    /\ ticks' = IF ticks < MaxTicks THEN ticks + 1 ELSE ticks
    /\ animationFrame' = animationFrame
    /\ rafPending' = still

RunAnimate(still) ==
    /\ pulsingRadius' = IF phase # "unmounted" THEN AnimateUpdate(pulsingRadius)
                        ELSE pulsingRadius
    /\ ticks' = IF ticks < MaxTicks THEN ticks + 1 ELSE ticks
    /\ animationFrame' = RequestFrame(animationFrame)
    /\ rafPending' = still \cup {RequestFrame(animationFrame)}

(***************************************************************************)
(* Actions.                                                                *)
(***************************************************************************)
\* the commit of the first render: both effects run, in source order
Mount ==
    /\ phase = "rendered"
    /\ phase' = "mounted"
    /\ RunReadinessEffect(ready)
    /\ RunAnimate(rafPending)
    /\ Render(inputs, pulsingRadius')
    /\ Quiet
    /\ UNCHANGED <<inputs, viewState, clientWidth, clientHeight>>

\* ready changed since the readiness effect last ran ([ready] dependency):
\* the cleanup of the previous run, then the effect again
ReadyEffect ==
    /\ phase = "mounted"
    /\ ready # effectReady
    /\ RunReadinessEffect(ready)
    /\ Render(inputs, pulsingRadius)
    /\ Quiet
    /\ UNCHANGED <<inputs, viewState, phase, pulsingRadius, clientWidth,
                   clientHeight, animationFrame, rafPending, ticks>>

\* the layout of the container changes (not an operation of the view)
Resize(w, h) ==
    /\ phase # "unmounted"
    /\ <<w, h>> # <<clientWidth, clientHeight>>
    /\ clientWidth' = w
    /\ clientHeight' = h
    /\ roPending' = observing
    /\ built' = {}
    /\ Quiet
    /\ UNCHANGED <<inputs, viewState, phase, ready, pulsingRadius, effectReady,
                   observing, animationFrame, rafPending, layers, ticks,
                   sizeSeen>>

\* the ResizeObserver callback: () => check()
LayoutNotify ==
    /\ observing
    /\ roPending
    /\ roPending' = FALSE
    /\ RunCheck
    /\ Render(inputs, pulsingRadius)
    /\ Quiet
    /\ UNCHANGED <<inputs, viewState, phase, pulsingRadius, effectReady,
                   clientWidth, clientHeight, observing, animationFrame,
                   rafPending, ticks>>

\* a scheduled frame callback runs animate
Tick ==
    /\ \E h \in rafPending : RunAnimate(rafPending \ {h})
    /\ Render(inputs, pulsingRadius')
    /\ Quiet
    /\ UNCHANGED <<inputs, viewState, phase, ready, effectReady, clientWidth,
                   clientHeight, observing, roPending, sizeSeen>>

\* unmount: the cleanups of both effects
Unmount ==
    /\ phase = "mounted"
    /\ phase' = "unmounted"
    /\ observing' = (observing /\ AfterDisconnect(observing))
    /\ roPending' = (roPending /\ AfterDisconnect(observing))
    /\ rafPending' = CancelFrame(rafPending, animationFrame)
    /\ built' = {}
    /\ Quiet
    /\ UNCHANGED <<inputs, viewState, ready, pulsingRadius, effectReady,
                   clientWidth, clientHeight, animationFrame, layers, ticks,
                   sizeSeen>>

\* the render surface exists only in the ready branch of the JSX
\* SurfaceMounted with the surface rendered whatever the gate says
SurfaceMountedAlways == phase = "mounted"

SurfaceMounted == phase = "mounted" /\ ready

\* ForwardViewState dropping a report that equals the current prop
ForwardViewStateIfChanged(v) ==
    IF v = viewState THEN NoEvent
    ELSE [type |-> "viewStateChange", viewState |-> v]

\* what onViewStateChange / onMove hand to the onViewStateChange prop
ForwardViewState(v) == [type |-> "viewStateChange", viewState |-> v]

\* DeckGL onViewStateChange={({viewState}) => onViewStateChange(viewState)};
\* the owner may or may not store what it is given
DeckViewStateChange(v) ==
    /\ SurfaceMounted
    /\ emitted' = ForwardViewState(v)
    /\ viewState' \in {v, viewState}
    /\ picked' = [handler |-> "onViewStateChange", viewState |-> v]
    /\ label' = Null
    /\ Render(inputs, pulsingRadius)
    /\ UNCHANGED <<inputs, phase, ready, pulsingRadius, effectReady,
                   clientWidth, clientHeight, observing, roPending,
                   animationFrame, rafPending, ticks, sizeSeen>>

\* MapLibreMap onMove={onMove}: onViewStateChange(evt.viewState)
MapMove(v) ==
    /\ SurfaceMounted
    /\ emitted' = ForwardViewState(v)
    /\ viewState' \in {v, viewState}
    /\ picked' = [handler |-> "onMove", viewState |-> v]
    /\ label' = Null
    /\ Render(inputs, pulsingRadius)
    /\ UNCHANGED <<inputs, phase, ready, pulsingRadius, effectReady,
                   clientWidth, clientHeight, observing, roPending,
                   animationFrame, rafPending, ticks, sizeSeen>>

\* SetViewState with the view echoing the new prop back to the owner (an
\* effect on viewState that calls onViewStateChange)
SetViewStateEcho(v) ==
    /\ phase # "unmounted"
    /\ v # viewState
    /\ viewState' = v
    /\ Render(inputs, pulsingRadius)
    /\ picked' = NoPick
    /\ emitted' = [type |-> "viewStateChange", viewState |-> v]
    /\ label' = Null
    /\ UNCHANGED <<inputs, phase, ready, pulsingRadius, effectReady,
                   clientWidth, clientHeight, observing, roPending,
                   animationFrame, rafPending, ticks, sizeSeen>>

\* the owner changes the viewState prop itself
SetViewState(v) ==
    /\ phase # "unmounted"
    /\ v # viewState
    /\ viewState' = v
    /\ Render(inputs, pulsingRadius)
    /\ Quiet
    /\ UNCHANGED <<inputs, phase, ready, pulsingRadius, effectReady,
                   clientWidth, clientHeight, observing, roPending,
                   animationFrame, rafPending, ticks, sizeSeen>>

\* DeckGL onClick={onClick}
Click(p) ==
    /\ SurfaceMounted
    /\ picked' = [handler |-> "onClick", pick |-> p]
    /\ emitted' = OnClickEvent(p)
    /\ label' = Null
    /\ Render(inputs, pulsingRadius)
    /\ UNCHANGED <<inputs, viewState, phase, ready, pulsingRadius, effectReady,
                   clientWidth, clientHeight, observing, roPending,
                   animationFrame, rafPending, ticks, sizeSeen>>

\* DeckGL getTooltip={...}
Hover(p) ==
    /\ SurfaceMounted
    /\ picked' = [handler |-> "getTooltip", pick |-> p]
    /\ emitted' = NoEvent
    /\ label' = GetTooltip(p)
    /\ Render(inputs, pulsingRadius)
    /\ UNCHANGED <<inputs, viewState, phase, ready, pulsingRadius, effectReady,
                   clientWidth, clientHeight, observing, roPending,
                   animationFrame, rafPending, ticks, sizeSeen>>

\* the owner passes new props: a render with the new inputs
SetProps(in) ==
    /\ phase # "unmounted"
    /\ in # inputs
    /\ inputs' = in
    /\ Render(in, pulsingRadius)
    /\ Quiet
    /\ UNCHANGED <<viewState, phase, ready, pulsingRadius, effectReady,
                   clientWidth, clientHeight, observing, roPending,
                   animationFrame, rafPending, ticks, sizeSeen>>

Next ==
    \/ Mount
    \/ ReadyEffect
    \/ \E w \in Dims, h \in Dims : Resize(w, h)
    \/ LayoutNotify
    \/ Tick
    \/ Unmount
    \/ \E v \in ViewStates : DeckViewStateChange(v)
    \/ \E v \in ViewStates : MapMove(v)
    \/ \E v \in ViewStates : SetViewState(v)
    \/ \E p \in CorePicks : Click(p)
    \/ \E p \in CorePicks : Hover(p)
    \/ \E in \in InputCases : SetProps(in)

Spec == Init /\ [][Next]_vars


(***************************************************************************)
(* Gate specification with fair delivery: the container starts with zero   *)
(* size, and a layout notification that stays due is delivered.            *)
(***************************************************************************)
ZeroSizeInit == InitWith({NothingLoaded(AllOn)}, {0})

FairGateSpec == ZeroSizeInit /\ [][Next]_vars /\ WF_vars(LayoutNotify)

(***************************************************************************)
(* Composition specification: every toggle state, result bundle, geometry  *)
(* and selection, reached by single-field changes of the props from a view *)
(* constructed with nothing loaded.                                        *)
(***************************************************************************)
ComposeInit ==
    InitWith({NothingLoaded(t) : t \in [Kinds -> BOOLEAN]}, {0})

ComposeNext == \E in \in Neighbours(inputs) : SetProps(in)

ComposeSpec == ComposeInit /\ [][ComposeNext]_vars

(***************************************************************************)
(* Memoisation specification: the composition specification plus renders   *)
(* that leave every dependency of the memo unchanged (the owner changes    *)
(* the viewState prop).                                                    *)
(***************************************************************************)
MemoNext ==
    \/ \E in \in Neighbours(inputs) : SetProps(in)
    \/ \E v \in ViewStates : SetViewState(v)

MemoSpec == ComposeInit /\ [][MemoNext]_vars

(***************************************************************************)
(* Interaction specification: the gate and every pick result.              *)
(***************************************************************************)
InteractNext ==
    \/ Mount
    \/ ReadyEffect
    \/ \E w \in Dims, h \in Dims : Resize(w, h)
    \/ LayoutNotify
    \/ Unmount
    \/ \E p \in Picks : Click(p)
    \/ \E p \in Picks : Hover(p)

InteractSpec == Init /\ [][InteractNext]_vars


(***************************************************************************)
(* Properties.                                                             *)
(***************************************************************************)
\* the position of a kind in the canonical order
KindPos(k) == CHOOSE i \in 1..Len(KindOrder) : KindOrder[i] = k

\* C1: whatever the toggles, the result bundle, the geometry and the
\* selection, and after any sequence of input changes, the composed list
\* holds kinds of the closed set only, at strictly increasing positions of
\* the canonical order: at most one descriptor per kind, in the order
\* choropleth, conflict, foodDesert, infrastructure, tradeArcs,
\* displacementArcs, heatmap.
C1_CanonicalOrder ==
    /\ \A i \in 1..Len(layers) : layers[i].kind \in Kinds
    /\ \A i, j \in 1..Len(layers) :
          i < j => KindPos(layers[i].kind) < KindPos(layers[j].kind)

\* C1 witness: after input changes, a recomposition has produced all seven
\* descriptors.
C1_Witness ==
    /\ Len(layers) = 7
    /\ built = Kinds
    /\ inputs.selectedCountry = "USA"

\* the inclusion rule of each kind, as the table states it
InclusionRule(k, in) ==
    LET t == in.layerToggles[k]
        present(d) == in.agentResults[d]
    IN  CASE k = "choropleth" -> t /\ in.countriesGeoJSON
          [] k = "conflict" -> t /\ present("geopolitics")
          [] k = "foodDesert" ->
                 t /\ in.countriesGeoJSON /\ present("food_supply")
          [] k = "infrastructure" -> t /\ present("infrastructure")
          [] k = "tradeArcs" ->
                 t /\ (present("economy") \/ present("food_supply"))
          [] k = "displacementArcs" -> t /\ present("civilian_impact")
          [] k = "heatmap" -> t

\* C2: a kind is in the composed list exactly when its inclusion rule
\* holds of the current inputs (heatmap whenever toggled, even with every
\* domain absent); with tradeArcs toggled, economy present and food_supply
\* absent, the trade-arc descriptor is there and was built with food_supply
\* absent.
C2_InclusionRules ==
    /\ \A k \in Kinds : (k \in KindsOf(layers)) <=> InclusionRule(k, inputs)
    /\ ( /\ inputs.layerToggles["tradeArcs"]
         /\ inputs.agentResults["economy"]
         /\ ~inputs.agentResults["food_supply"] )
       => \E i \in 1..Len(layers) :
             /\ layers[i].kind = "tradeArcs"
             /\ layers[i].args = <<TRUE, FALSE>>

\* C2 witness: trade arcs composed from the economy output alone.
C2_Witness ==
    /\ inputs.layerToggles["tradeArcs"]
    /\ inputs.agentResults["economy"]
    /\ ~inputs.agentResults["food_supply"]
    /\ "tradeArcs" \in built
    /\ "foodDesert" \notin KindsOf(layers)


\* the container has a measurable size
Sized == clientWidth > 0 /\ clientHeight > 0

\* C3: the readiness flag is never true, and so the render surface is never
\* constructed, unless some dimension check (at mount or on a layout
\* notification) has observed width > 0 and height > 0; while no check has,
\* the view shows the placeholder.
C3_NoSurfaceBeforeSize ==
    ~sizeSeen => (~ready /\ ~SurfaceMounted)

\* C3 witness: a layout notification was delivered while the container had
\* a size, and the gate is ready.
C3_Witness ==
    /\ phase = "mounted"
    /\ ready
    /\ sizeSeen
    /\ observing
    /\ ~roPending
    /\ Sized

\* C4: once ready is true it is true in every later state, whatever layout
\* notification, resize to zero, tick, viewport change or input change
\* follows.
C4_ReadyMonotonic == [][ready => ready']_vars

\* C4 witness: the gate is ready, the container was resized to zero and the
\* notification of that resize has been handled.
C4_Witness ==
    /\ phase = "mounted"
    /\ ready
    /\ clientWidth = 0
    /\ clientHeight = 0
    /\ observing
    /\ ~roPending

\* C5: for a view mounted in a container of zero size, with fair delivery of
\* layout notifications: whenever the container has width > 0 and
\* height > 0 while the gate is waiting, the gate eventually becomes ready,
\* unless the container loses its size again or the view is torn down first.
C5_EventuallyReady ==
    (phase = "mounted" /\ ~ready /\ Sized)
        ~> (ready \/ phase # "mounted" \/ ~Sized)

\* C5 witness: started at zero size, the view is mounted, the container has
\* acquired a size, the notification was delivered and the gate is ready.
C5_Witness ==
    /\ phase = "mounted"
    /\ ready
    /\ Sized
    /\ ~roPending
    /\ ticks >= 2

\* 1.1800000000000002 and 0.8200000000000001
AfterNineTicks == <<633507676, 85899392>>
AfterElevenTicks == <<440234147, 450971584>>

\* C6 as stated: after 10 ticks from 1.0 the value is exactly 1.2 and after
\* the 11th it is 0.8.
C6_Original ==
    /\ ticks = 10 => pulsingRadius = UPPER
    /\ ticks = 11 => pulsingRadius = LOWER

\* C6 amended: in double-precision arithmetic the value after 9 ticks is
\* 1.1800000000000002; the 10th sum, 1.2000000000000002, exceeds 1.2, so it
\* is the 10th tick that wraps around to 0.8 (it is not clamped at 1.2) and
\* the 11th gives 0.8200000000000001; the value 1.2 is never attained.
C6_WrapAtTenthTick ==
    /\ ticks = 9 => pulsingRadius = AfterNineTicks
    /\ ticks = 10 => pulsingRadius = LOWER
    /\ ticks = 11 => pulsingRadius = AfterElevenTicks
    /\ pulsingRadius # UPPER

\* C6 witness: ten updates applied, the value is 0.8.
C6_Witness == ticks = 10 /\ pulsingRadius = LOWER

\* a step that ran animate: the mount or a frame callback
AnimateRan == animationFrame' # animationFrame

\* C7: the pulsing intensity always lies in [0.8, 1.2]; a step that runs
\* animate on the mounted view replaces it by the double-precision sum
\* prev + 0.02 or, when that sum exceeds 1.2, by 0.8; no other step changes
\* it.
C7_PulseBounded ==
    /\ [](FLessEq(LOWER, pulsingRadius) /\ FLessEq(pulsingRadius, UPPER))
    /\ [][ /\ (AnimateRan /\ phase' = "mounted") =>
                 pulsingRadius' =
                     IF FGreater(FAdd(pulsingRadius, STEP), UPPER)
                     THEN LOWER ELSE FAdd(pulsingRadius, STEP)
           /\ ~AnimateRan => pulsingRadius' = pulsingRadius ]_vars

\* C7 witness: the ramp has wrapped around to 0.8 a second time.
C7_Witness ==
    /\ pulsingRadius = LOWER
    /\ ticks = MaxTicks
    /\ phase = "mounted"

\* C8: after the view is torn down no frame callback is scheduled and no
\* tick can run, however many ticks ran before.
C8_NoTickAfterTeardown ==
    phase = "unmounted" => (rafPending = {} /\ ~ENABLED Tick)

\* C8 witness: torn down after several ticks, with nothing scheduled.
C8_Witness ==
    /\ phase = "unmounted"
    /\ ticks >= 3
    /\ rafPending = {}

\* C9: after the view is torn down no layout observer is active and no
\* layout notification can be handled, also when the teardown came while
\* the gate was still observing.
C9_NoObserverAfterTeardown ==
    phase = "unmounted" => (~observing /\ ~ENABLED LayoutNotify)

\* C9 witness: torn down while the gate was not ready (and so observing).
C9_Witness ==
    /\ phase = "unmounted"
    /\ ~ready
    /\ ~observing

\* a pick carries a non-empty value of a property
Carries(p, f) == p.object /\ p.properties /\ p[f] # Undefined /\ p[f] # ""

\* C10: onClick emits a region-click event carrying the identifier exactly
\* when the pick carries a non-empty identifier, and nothing otherwise;
\* getTooltip returns the display name when the pick carries one, else the
\* identifier when it carries one, else no label.
C10_PickResolution ==
    /\ picked.handler = "onClick" =>
          /\ Carries(picked.pick, "ISO_A3") =>
                emitted = [type |-> "countryClick", iso |-> picked.pick.ISO_A3]
          /\ ~Carries(picked.pick, "ISO_A3") => emitted = NoEvent
    /\ picked.handler = "getTooltip" =>
          /\ emitted = NoEvent
          /\ label = IF Carries(picked.pick, "NAME") THEN picked.pick.NAME
                     ELSE IF Carries(picked.pick, "ISO_A3")
                          THEN picked.pick.ISO_A3
                     ELSE Null

\* C10 witness: a hover over a region that has both properties shows its
\* display name.
C10_Witness ==
    /\ picked.handler = "getTooltip"
    /\ picked.pick.NAME = "France"
    /\ picked.pick.ISO_A3 = "FRA"
    /\ label = "France"


\* the selections other than the current one
OtherSelections(in) == (Regions \cup {NoSelection}) \ {in.selectedCountry}

\* two descriptor lists hold the same kinds at the same positions and equal
\* descriptors everywhere but at the choropleth
SameButChoropleth(a, b) ==
    /\ Len(a) = Len(b)
    /\ \A i \in 1..Len(a) :
          /\ a[i].kind = b[i].kind
          /\ a[i].kind # "choropleth" => a[i] = b[i]

\* C11: composing again with the inputs of the last render gives a list
\* element-wise equal to the one that render produced; and composing with
\* inputs that differ only in the selected region gives the same kinds at
\* the same positions and an equal descriptor for every kind other than
\* choropleth.
C11_Deterministic ==
    /\ Len(layers) = Len(ComposeLayers(inputs, pulsingRadius))
    /\ \A i \in 1..Len(layers) :
          layers[i] = ComposeLayers(inputs, pulsingRadius)[i]
    /\ \A r \in OtherSelections(inputs) :
          SameButChoropleth(
              layers,
              ComposeLayers([inputs EXCEPT !.selectedCountry = r],
                            pulsingRadius))

\* C11 witness: a list with a choropleth and other descriptors, composed
\* for the selection USA, whose choropleth differs from the one composed
\* for FRA.
C11_Witness ==
    /\ inputs.selectedCountry = "USA"
    /\ {"choropleth", "conflict", "heatmap"} \subseteq built
    /\ layers[1] #
          ComposeLayers([inputs EXCEPT !.selectedCountry = "FRA"],
                        pulsingRadius)[1]


\* the step changed exactly one toggle, not the heatmap's, and nothing else
\* the memo depends on
OnlyOtherToggleChanged ==
    /\ pulsingRadius' = pulsingRadius
    /\ \E k \in Kinds \ {"heatmap"} :
          inputs' = [inputs EXCEPT !.layerToggles[k] = ~@]

\* the step rendered with every dependency of the memo unchanged
RenderedUnchanged ==
    /\ phase' # "unmounted"
    /\ inputs' = inputs
    /\ pulsingRadius' = pulsingRadius

\* C12 as stated: a render with unchanged inputs rebuilds no descriptor,
\* and a render after a change of only a toggle other than heatmap, with
\* heatmap toggled on, does not invoke the heatmap builder.
C12_Original ==
    [][ /\ RenderedUnchanged => built' = {}
        /\ (OnlyOtherToggleChanged /\ inputs.layerToggles["heatmap"])
              => "heatmap" \notin built' ]_vars

\* the heatmap descriptor of a list (the list holds at most one)
HeatmapOf(ls) == {ls[i] : i \in {j \in 1..Len(ls) : ls[j].kind = "heatmap"}}

\* C12 amended: a render with unchanged inputs rebuilds no descriptor and
\* keeps the list; a render after a change of any dependency, a toggle
\* other than heatmap included, invokes the builder of every kind in the new
\* list, the heatmap builder too; after a change of only such a toggle the
\* rebuilt heatmap descriptor is equal in content to the previous one.
C12_RebuildsAllOnChange ==
    [][ /\ RenderedUnchanged => (built' = {} /\ layers' = layers)
        /\ (inputs' # inputs \/ pulsingRadius' # pulsingRadius)
              => built' = KindsOf(layers')
        /\ OnlyOtherToggleChanged => HeatmapOf(layers') = HeatmapOf(layers) ]_vars

\* C12 witness: with analysis output loaded, a render after an input change
\* has rebuilt the heatmap descriptor along with the others.
C12_Witness ==
    /\ inputs.agentResults["economy"]
    /\ inputs.layerToggles["heatmap"]
    /\ ~inputs.layerToggles["choropleth"]
    /\ "heatmap" \in built
    /\ "tradeArcs" \in built


\* the handlers through which the render surface reports a viewport change
ViewHandlers == {"onViewStateChange", "onMove"}

\* C13: every viewport change the render surface reports, through DeckGL's
\* onViewStateChange or the map's onMove, is forwarded to the owner's
\* callback with exactly the reported ViewState, also when it equals the
\* current prop: nothing is compared, suppressed or dropped.
C13_ForwardsEveryReport ==
    picked.handler \in ViewHandlers =>
        emitted = [type |-> "viewStateChange", viewState |-> picked.viewState]

\* C13 witness: the surface reported v1 while the prop was v0; the report
\* was forwarded and the owner kept v0.
C13_Witness ==
    /\ picked.handler = "onViewStateChange"
    /\ picked.viewState = "v1"
    /\ emitted.type = "viewStateChange"
    /\ viewState = "v0"


\* C14 as stated: a mount in a container that already has width > 0 and
\* height > 0 makes the gate ready without starting a layout observer; an
\* observer is started only by a mount whose check found a zero width or a
\* zero height.
C14_ObserverOnlyWhenUnsized ==
    [][ /\ (phase = "rendered" /\ phase' = "mounted" /\ Sized)
              => (ready' /\ ~observing')
        /\ (~observing /\ observing')
              => (phase = "rendered" /\ phase' = "mounted" /\ ~Sized) ]_vars


\* the readiness effect has run with the current value of ready: the
\* re-render that a change of ready causes has completed
EffectsFlushed == effectReady = ready

\* C15: for a view mounted at zero size, once a layout notification's check
\* has made the gate ready and the re-render that follows has completed, no
\* layout observer is active, and none is started again for the rest of the
\* view's lifetime.
C15_ObservationStops ==
    /\ []((ready /\ EffectsFlushed) => ~observing)
    /\ [][(ready /\ EffectsFlushed) => (~observing' /\ EffectsFlushed')]_vars

\* C15 witness: made ready by a layout notification, the view has re-run the
\* effect; no observer is active although the container is back at zero
\* width.
C15_Witness ==
    /\ phase = "mounted"
    /\ ready
    /\ EffectsFlushed
    /\ ~observing
    /\ clientWidth = 0


\* a builder was called with the inputs it declares as required (a payload
\* or the geometry is TRUE when present)
RequiredInputsPresent(d) ==
    CASE d.kind = "choropleth" -> d.args[1]
      [] d.kind = "conflict" -> d.args[1]
      [] d.kind = "foodDesert" -> d.args[1] /\ d.args[2]
      [] d.kind = "infrastructure" -> d.args[1]
      [] d.kind = "tradeArcs" -> d.args[1] \/ d.args[2]
      [] d.kind = "displacementArcs" -> d.args[1]
      [] d.kind = "heatmap" -> TRUE

\* the kinds whose inclusion rule reads a domain's output
DependsOn(d) ==
    CASE d = "geopolitics" -> {"conflict"}
      [] d = "economy" -> {"tradeArcs"}
      [] d = "food_supply" -> {"foodDesert", "tradeArcs"}
      [] d = "infrastructure" -> {"infrastructure"}
      [] d = "civilian_impact" -> {"displacementArcs"}

\* C16: for every input combination the composition yields a list (of at
\* most seven descriptors), every descriptor in it was built with its
\* required inputs present (geometry for choropleth and foodDesert, the
\* domain output for conflict, foodDesert, infrastructure and
\* displacementArcs, at least one of economy and food_supply for tradeArcs),
\* and making one domain output absent removes no kind other than those
\* whose rule depends on that domain.
C16_GuardsPrecedeBuilders ==
    /\ Len(layers) \in 0..Len(KindOrder)
    /\ built \subseteq KindsOf(layers)
    /\ \A i \in 1..Len(layers) : RequiredInputsPresent(layers[i])
    /\ \A d \in Domains :
          KindsOf(layers) \ DependsOn(d) \subseteq
              KindsOf(ComposeLayers(
                  [inputs EXCEPT !.agentResults[d] = FALSE], pulsingRadius))

\* C16 witness: with the geopolitics output absent and conflict toggled on,
\* the list lacks the conflict descriptor and holds the others that have
\* their data.
C16_Witness ==
    /\ inputs.layerToggles["conflict"]
    /\ ~inputs.agentResults["geopolitics"]
    /\ "conflict" \notin KindsOf(layers)
    /\ {"infrastructure", "tradeArcs", "heatmap"} \subseteq built


\* C17: a viewport-change event is emitted only by a step in which the
\* render surface reported a viewport (through onViewStateChange or onMove),
\* it carries the reported viewport, and a step in which the viewState prop
\* changes without such a report (the owner storing a value) emits nothing;
\* so a report yields one emission and the owner's update yields none.
C17_NoFeedbackLoop ==
    /\ [](emitted.type = "viewStateChange" =>
             /\ picked.handler \in ViewHandlers
             /\ emitted.viewState = picked.viewState)
    /\ [][ (viewState' # viewState /\ picked'.handler \notin ViewHandlers)
              => emitted' = NoEvent ]_vars

\* C17 witness: the map reported v1 through onMove, the event carried v1
\* and the owner stored it, so the prop now equals the reported viewport.
C17_Witness ==
    /\ picked.handler = "onMove"
    /\ picked.viewState = "v1"
    /\ emitted = [type |-> "viewStateChange", viewState |-> "v1"]
    /\ viewState = "v1"
    /\ ready


\* C18: while the view is mounted exactly one frame callback is pending,
\* and it is the one whose handle the effect holds; whatever else has
\* happened (layout notifications, readiness, renders, input changes), the
\* loop has neither stalled nor doubled up.
C18_OnePendingFrame ==
    phase = "mounted" =>
        /\ Cardinality(rafPending) = 1
        /\ rafPending = {animationFrame}

\* C18 witness: several ticks have run, interleaved with the gate becoming
\* ready and a change of the inputs, and one frame is pending.
C18_Witness ==
    /\ phase = "mounted"
    /\ ready
    /\ ticks >= 3
    /\ inputs # NothingLoaded(AllOn)
    /\ Cardinality(rafPending) = 1


\* C19: a step in which animate ran and the inputs stayed the same leaves
\* the composed list with the same kinds in the same order, and every
\* descriptor other than the conflict one equal to what it was.
C19_TickTouchesOnlyConflict ==
    [][ (AnimateRan /\ inputs' = inputs) =>
            /\ Len(layers') = Len(layers)
            /\ \A i \in 1..Len(layers) :
                  /\ layers'[i].kind = layers[i].kind
                  /\ layers[i].kind # "conflict" => layers'[i] = layers[i] ]_vars

\* C19 witness: ticks have moved the intensity away from its start, the
\* last step recomposed the full list, and its conflict descriptor carries
\* the new intensity.
C19_Witness ==
    /\ phase = "mounted"
    /\ ticks \in 1..(MaxTicks - 1)
    /\ pulsingRadius # ONE
    /\ "conflict" \in built
    /\ Len(layers) = Len(KindOrder)
    /\ layers[2] = CreateConflictLayer(TRUE, pulsingRadius)


\* C20: a region-click or viewport-change event, and any call of a surface
\* handler, occurs only in a state where the view is mounted and the gate is
\* ready; in the mounted not-ready states the animation tick stays enabled
\* and the list is the composition of the current inputs and intensity.
C20_NoEventBeforeReady ==
    /\ (emitted # NoEvent \/ picked # NoPick) => (phase = "mounted" /\ ready)
    /\ (phase = "mounted" /\ ~ready) =>
          /\ ENABLED Tick
          /\ layers = ComposeLayers(inputs, pulsingRadius)

\* C20 witness: the gate is not ready, yet several ticks have run and the
\* last step rebuilt descriptors from loaded inputs, with nothing emitted.
C20_Witness ==
    /\ phase = "mounted"
    /\ ~ready
    /\ ticks >= 3
    /\ pulsingRadius # ONE
    /\ built # {}
    /\ emitted = NoEvent

=============================================================================
